---- MODULE Spec2Model ----
(***************************************************************************)
(* Model of src/ssp.py: the peak binning, the count matrices, the          *)
(* SecStrucPredictor object and the __main__ program that drives them.     *)
(*                                                                         *)
(* A chemical shift is an integer number of 1/Res ppm.  A bin size is the  *)
(* double that Python's "/" returns: the exact quotient num/den together   *)
(* with the sign of the IEEE-754 rounding error (err), which is what       *)
(* decides a float floor division "//" on a bin boundary.                  *)
(***************************************************************************)
EXTENDS Integers, Sequences, FiniteSets, TLC

\* ---------------------------------------------------------------- bounds
\* Shift values are multiples of 1/Res ppm.
Res == 4
\* Longest peak list read from a CSV file or from the instrument.
MaxPeaks == 2
\* Longest shift list handed to binning on its own.
MaxShifts == 2

\* ------------------------------------------------------- program constants
H_shift_max == 11
H_shift_min == 6
N_shift_max == 140
N_shift_min == 90
\* Significand width of a double: Python floats are IEEE-754 binary64.
DoubleBits == 53

\* The (H_num_1D_grid, N_num_1D_grid) pairs of the binning loop.
GridSpecs == << <<10, 20>>, <<10, 26>>, <<8, 10>> >>

Min(a, b) == IF a <= b THEN a ELSE b

\* ------------------------------------------------------- float arithmetic
\* Scale n and d (both > 0) by powers of two until d <= n < 2*d.
RECURSIVE Normalise(_, _)
Normalise(n, d) ==
    IF n >= 2 * d THEN Normalise(n, 2 * d)
    ELSE IF n < d THEN Normalise(2 * n, d)
    ELSE <<n, d>>

\* Binary long division: r is the remainder after k significand bits, last the
\* k-th bit.  After DoubleBits bits the remainder decides round-to-nearest-even:
\* the result is the sign of (double quotient - exact quotient).
RECURSIVE RoundingSign(_, _, _, _)
RoundingSign(r, d, last, k) ==
    IF k < DoubleBits
    THEN IF 2 * r >= d THEN RoundingSign(2 * r - d, d, 1, k + 1)
                       ELSE RoundingSign(2 * r, d, 0, k + 1)
    ELSE IF r = 0 THEN 0
    ELSE IF 2 * r < d THEN -1
    ELSE IF 2 * r > d THEN 1
    ELSE IF last = 1 THEN 1 ELSE -1

\* a / b on two positive ints: the double nearest to a/b.
FloatDiv(a, b) ==
    LET nd == Normalise(a, b)
    IN  [num |-> a, den |-> b, err |-> RoundingSign(nd[1] - nd[2], nd[2], 1, 1)]

\* x // binsize as Python computes it on doubles: the floor of the exact
\* quotient of the two doubles.  x is a number of 1/Res ppm (exactly a double),
\* binsize a double from FloatDiv.  Where x*den/(num*Res) is a whole number k,
\* a bin size rounded up makes the quotient fall just short of k for x > 0 (and a
\* bin size rounded down does for x < 0), so the floor is k - 1.
FloatFloorDiv(x, binsize) ==
    LET A == x * binsize.den
        B == binsize.num * Res
        base == A \div B
        short == /\ A % B = 0
                 /\ \/ A > 0 /\ binsize.err > 0
                    \/ A < 0 /\ binsize.err < 0
    IN  IF short THEN base - 1 ELSE base

\* ---------------------------------------------------------------- binning
\* bin_index = int((ppm_value - shift_min) // binsize); int() of a floored
\* double is that whole number.
bin_index_of(ppm_value, binsize, shift_min) ==
    FloatFloorDiv(ppm_value - shift_min * Res, binsize)

\* The loop of binning: values too large or too small for the grid are skipped.
RECURSIVE binning(_, _, _, _)
binning(shifts, binsize, shift_min, num_1D_grid) ==
    IF shifts = <<>> THEN <<>>
    ELSE LET bin_index == bin_index_of(Head(shifts), binsize, shift_min)
             rest == binning(Tail(shifts), binsize, shift_min, num_1D_grid)
         IN  IF bin_index > num_1D_grid - 1 THEN rest
             ELSE IF bin_index < 0 THEN rest
             ELSE <<bin_index>> \o rest

\* The sequence of n copies of x.
RECURSIVE Repeat(_, _)
Repeat(x, n) == IF n = 0 THEN <<>> ELSE Append(Repeat(x, n - 1), x)

\* np.zeros((rows, cols)): a sequence of rows.
Zeros(rows, cols) == Repeat(Repeat(0, cols), rows)

\* The zip loop with "= 1" written for "+= 1".
RECURSIVE CountLoopAssign(_, _, _, _)
CountLoopAssign(m, binned_H_shifts, binned_N_shifts, k) ==
    IF k > Min(Len(binned_H_shifts), Len(binned_N_shifts)) THEN m
    ELSE CountLoopAssign([m EXCEPT ![binned_N_shifts[k] + 1][binned_H_shifts[k] + 1] = 1],
                         binned_H_shifts, binned_N_shifts, k + 1)

\* The zip loop: pairs the two index lists by position, up to the shorter one.
RECURSIVE CountLoop(_, _, _, _)
CountLoop(m, binned_H_shifts, binned_N_shifts, k) ==
    IF k > Min(Len(binned_H_shifts), Len(binned_N_shifts)) THEN m
    ELSE CountLoop([m EXCEPT ![binned_N_shifts[k] + 1][binned_H_shifts[k] + 1] = @ + 1],
                   binned_H_shifts, binned_N_shifts, k + 1)

generate_count_peaks_matrix(binned_H_shifts, binned_N_shifts, H_num_1D_grid, N_num_1D_grid) ==
    CountLoop(Zeros(N_num_1D_grid, H_num_1D_grid), binned_H_shifts, binned_N_shifts, 1)

\* --------------------------------------------------------- SecStrucPredictor
\* An object is its attribute dictionary: a function from the names of the
\* attributes set so far to their values.  Reading a name outside its DOMAIN is
\* Python's AttributeError.
SetAttr(self, name, value) == (name :> value) @@ self
HasAttrs(self, names) == names \subseteq DOMAIN self

\* __init__: the regressor with the model file loaded, and no other attribute.
NewPredictor == [predictor |-> "Model.cbm"]

\* get_input that keeps matrices the object already holds.
get_input_once(self, matrices) ==
    IF HasAttrs(self, {"matrix_20x10", "matrix_26x10", "matrix_10x8"}) THEN self
    ELSE SetAttr(SetAttr(SetAttr(self, "matrix_20x10", matrices[1]),
                         "matrix_26x10", matrices[2]),
                 "matrix_10x8", matrices[3])

get_input(self, matrices) ==
    SetAttr(SetAttr(SetAttr(self, "matrix_20x10", matrices[1]),
                    "matrix_26x10", matrices[2]),
            "matrix_10x8", matrices[3])

\* numpy's reshape(-1) of a 2-D array: its rows one after the other.
RECURSIVE Reshape1D(_)
Reshape1D(m) == IF m = <<>> THEN <<>> ELSE Head(m) \o Reshape1D(Tail(m))

MatrixAttrs == {"matrix_20x10", "matrix_26x10", "matrix_10x8"}

\* combine_inputs with the 26x10 block put first.
combine_inputs_reordered(self) ==
    LET m1 == Reshape1D(self["matrix_20x10"])
        m2 == Reshape1D(self["matrix_26x10"])
        m3 == Reshape1D(self["matrix_10x8"])
    IN  SetAttr(SetAttr(SetAttr(SetAttr(self, "matrix_20x10_1D", m1),
                                "matrix_26x10_1D", m2),
                        "matrix_10x8_1D", m3),
                "combined_inputs", m2 \o m1 \o m3)

\* combine_inputs that reuses the flattened matrices of an earlier call.
combine_inputs_cached(self) ==
    LET have == HasAttrs(self, {"matrix_20x10_1D", "matrix_26x10_1D", "matrix_10x8_1D"})
        m1 == IF have THEN self["matrix_20x10_1D"] ELSE Reshape1D(self["matrix_20x10"])
        m2 == IF have THEN self["matrix_26x10_1D"] ELSE Reshape1D(self["matrix_26x10"])
        m3 == IF have THEN self["matrix_10x8_1D"] ELSE Reshape1D(self["matrix_10x8"])
    IN  SetAttr(SetAttr(SetAttr(SetAttr(self, "matrix_20x10_1D", m1),
                                "matrix_26x10_1D", m2),
                        "matrix_10x8_1D", m3),
                "combined_inputs", m1 \o m2 \o m3)

combine_inputs(self) ==
    LET m1 == Reshape1D(self["matrix_20x10"])
        m2 == Reshape1D(self["matrix_26x10"])
        m3 == Reshape1D(self["matrix_10x8"])
    IN  SetAttr(SetAttr(SetAttr(SetAttr(self, "matrix_20x10_1D", m1),
                                "matrix_26x10_1D", m2),
                        "matrix_10x8_1D", m3),
                "combined_inputs", m1 \o m2 \o m3)

\* CatBoostRegressor.predict is outside the repository: a deterministic function
\* of the vector it is given, kept as the uninterpreted term predict(vector).
RegressorPredict(vector) == [predict |-> vector]

predict_structure_composition(self) ==
    SetAttr(self, "predictions", RegressorPredict(self["combined_inputs"]))

\* One pass of the __main__ loop body for the pair (H_num_1D_grid, N_num_1D_grid).
H_binsize(H_num_1D_grid) == FloatDiv(H_shift_max - H_shift_min, H_num_1D_grid)
N_binsize(N_num_1D_grid) == FloatDiv(N_shift_max - N_shift_min, N_num_1D_grid)

BinH(shifts, grid) == binning(shifts, H_binsize(grid[1]), H_shift_min, grid[1])
BinN(shifts, grid) == binning(shifts, N_binsize(grid[2]), N_shift_min, grid[2])

\* The matrices the whole loop appends for the shift lists Hs and Ns.
LoopMatrices(Hs, Ns) ==
    [g \in 1..Len(GridSpecs) |->
        generate_count_peaks_matrix(BinH(Hs, GridSpecs[g]), BinN(Ns, GridSpecs[g]),
                                    GridSpecs[g][1], GridSpecs[g][2])]

\* ------------------------------------------------------------------ state
VARIABLES
    argv,             \* sys.argv, each string a sequence of characters
    pc,               \* position of the __main__ program
    H_shifts,         \* the two parallel shift lists of the peaks read
    N_shifts,
    binned_H_shifts,  \* the index lists of the latest pass of the binning loop
    binned_N_shifts,
    input_matrices,   \* the count matrices appended so far
    predictor,        \* the SecStrucPredictor object (its attribute dictionary)
    err,              \* the exception that ended the program or the call, or "none"
    printed,          \* whether the composition has been printed
    test_line,        \* the PREDICTION TEST line printed: "none", "passed", "failed"
    given,            \* <<input>>: what the latest get_input call was handed
    combined_from,    \* the value of given at the latest combine_inputs call
    passed,           \* <<r>> once the object's regressor was called: r.given and
                      \* r.combined_from are the two variables above at the latest
                      \* such call; the vector handed over is the argument kept in
                      \* predictor["predictions"]
    runs,             \* the completed pipeline runs: peak list, vector, result
    b_args,           \* the arguments of a stand-alone binning call
    b_out             \* its result, <<list>> once it has returned

mainvars == <<argv, pc, H_shifts, N_shifts, binned_H_shifts, binned_N_shifts,
              input_matrices, printed, test_line>>
apivars == <<given, combined_from, passed, runs>>
binvars == <<b_args, b_out>>
vars == <<mainvars, predictor, err, apivars, binvars>>

\* ---------------------------------------------------------------- inputs
Script == <<"s", "s", "p", ".", "p", "y">>
ArgTest == <<"t", "e", "s", "t">>
ArgCsv == <<"p", ".", "c", "s", "v">>
ArgShap == <<"s", "h", "a", "p">>
DotCsv == <<".", "c", "s", "v">>

\* The command lines tried.
Argvs == { <<Script>>, <<Script, ArgTest>>, <<Script, ArgCsv>>, <<Script, ArgShap>>,
           <<Script, ArgTest, ArgShap>>, <<Script, ArgCsv, ArgShap>> }

\* str.endswith
EndsWith(str, suffix) ==
    /\ Len(str) >= Len(suffix)
    /\ SubSeq(str, Len(str) - Len(suffix) + 1, Len(str)) = suffix

\* Shift values in 1/Res ppm: just below the range, its lower bound, inside, and
\* its upper bound.
HLow == H_shift_min * Res - 1
HMin == H_shift_min * Res
HMid == (H_shift_min + 2) * Res + 1
HMax == H_shift_max * Res
NLow == N_shift_min * Res - 1
NMin == N_shift_min * Res
NMid == (N_shift_min + 25) * Res
NMax == N_shift_max * Res

\* Peak positions <<H, N>> a peak list is drawn from.
Positions == { <<HMid, NMid>>, <<HLow, NMin>>, <<HMin, NMax>>, <<HMax, NLow>>,
               <<HMid, NLow>> }
Intensities == {-1, 0, 2}

SeqsUpTo(S, n) == UNION { [1..k -> S] : k \in 0..n }

\* The rows (X_shift, Y_shift) of a CSV peak file.
CsvFiles == SeqsUpTo(Positions, MaxPeaks)
\* The peak list of the current dataset.
InstrumentPeakLists ==
    SeqsUpTo([intensity : Intensities, position : Positions], MaxPeaks)

Column(rows, c) == [i \in 1..Len(rows) |-> rows[i][c]]

\* ------------------------------------------------------------ __main__
Init ==
    /\ argv \in Argvs
    /\ pc = "start"
    /\ H_shifts = <<>>
    /\ N_shifts = <<>>
    /\ binned_H_shifts = <<>>
    /\ binned_N_shifts = <<>>
    /\ input_matrices = <<>>
    /\ predictor = <<>>
    /\ err = "none"
    /\ printed = FALSE
    /\ test_line = "none"
    /\ given = <<>>
    /\ combined_from = <<>>
    /\ passed = <<>>
    /\ runs = {}
    /\ b_args = <<>>
    /\ b_out = <<>>

\* if len(sys.argv) > 1 and sys.argv[1] == "test": the bundled CSV file.
ReadTestCsv ==
    /\ pc = "start"
    /\ Len(argv) > 1 /\ argv[2] = ArgTest
    /\ \E peak_list \in CsvFiles :
          /\ N_shifts' = Column(peak_list, 2)
          /\ H_shifts' = Column(peak_list, 1)
    /\ pc' = "construct"
    /\ UNCHANGED <<argv, binned_H_shifts, binned_N_shifts, input_matrices, printed,
                   test_line, predictor, err, apivars, binvars>>

\* elif len(sys.argv) > 1 and sys.argv[1].endswith(".csv"): the user's CSV file.
ReadUserCsv ==
    /\ pc = "start"
    /\ ~(Len(argv) > 1 /\ argv[2] = ArgTest)
    /\ Len(argv) > 1 /\ EndsWith(argv[2], DotCsv)
    /\ \E peak_list \in CsvFiles :
          /\ N_shifts' = Column(peak_list, 2)
          /\ H_shifts' = Column(peak_list, 1)
    /\ pc' = "construct"
    /\ UNCHANGED <<argv, binned_H_shifts, binned_N_shifts, input_matrices, printed,
                   test_line, predictor, err, apivars, binvars>>

\* np.max over the intensities of a non-empty peak list.
RECURSIVE MaxIntensity(_)
MaxIntensity(peak_list) ==
    IF Len(peak_list) = 1 THEN peak_list[1].intensity
    ELSE LET m == MaxIntensity(Tail(peak_list))
         IN  IF peak_list[1].intensity > m THEN peak_list[1].intensity ELSE m

\* peak["intensity"] / max_intensity > 0.  A division by a numpy zero gives nan
\* or -inf (every intensity is then <= 0), neither of which is > 0.
RelIntensityPositive(intensity, max_intensity) ==
    IF max_intensity = 0 THEN FALSE ELSE intensity * max_intensity > 0

RECURSIVE KeptPeaks(_, _)
KeptPeaks(peak_list, max_intensity) ==
    IF peak_list = <<>> THEN <<>>
    ELSE IF RelIntensityPositive(peak_list[1].intensity, max_intensity)
         THEN <<peak_list[1].position>> \o KeptPeaks(Tail(peak_list), max_intensity)
         ELSE KeptPeaks(Tail(peak_list), max_intensity)

\* else: the peak list of the instrument's current dataset.
ReadInstrument ==
    /\ pc = "start"
    /\ ~(Len(argv) > 1 /\ argv[2] = ArgTest)
    /\ ~(Len(argv) > 1 /\ EndsWith(argv[2], DotCsv))
    /\ \E peak_list \in InstrumentPeakLists :
          IF Len(peak_list) = 0
          THEN /\ err' = "ValueError"
               /\ pc' = "failed"
               /\ UNCHANGED <<H_shifts, N_shifts>>
          ELSE LET kept == KeptPeaks(peak_list, MaxIntensity(peak_list))
               IN  /\ H_shifts' = Column(kept, 1)
                   /\ N_shifts' = Column(kept, 2)
                   /\ pc' = "construct"
                   /\ err' = err
    /\ UNCHANGED <<argv, binned_H_shifts, binned_N_shifts, input_matrices, printed,
                   test_line, predictor, apivars, binvars>>

\* predictor = SecStrucPredictor(); input_matrices = []
Construct ==
    /\ pc = "construct"
    /\ predictor' = NewPredictor
    /\ input_matrices' = <<>>
    /\ pc' = "loop"
    /\ UNCHANGED <<argv, H_shifts, N_shifts, binned_H_shifts, binned_N_shifts, printed,
                   test_line, err, apivars, binvars>>

\* One pass of: for H_num_1D_grid, N_num_1D_grid in [(10,20),(10,26),(8,10)]
BinGrid ==
    /\ pc = "loop"
    /\ Len(input_matrices) < Len(GridSpecs)
    /\ LET grid == GridSpecs[Len(input_matrices) + 1]
           bH == BinH(H_shifts, grid)
           bN == BinN(N_shifts, grid)
       IN  /\ binned_H_shifts' = bH
           /\ binned_N_shifts' = bN
           /\ input_matrices' =
                 Append(input_matrices, generate_count_peaks_matrix(bH, bN, grid[1], grid[2]))
    /\ UNCHANGED <<argv, pc, H_shifts, N_shifts, printed, test_line, predictor, err,
                   apivars, binvars>>

\* predictor.get_input(input_matrices)
GetInput ==
    /\ pc = "loop"
    /\ Len(input_matrices) = Len(GridSpecs)
    /\ predictor' = get_input(predictor, input_matrices)
    /\ given' = <<[peaks |-> [i \in 1..Len(H_shifts) |-> <<H_shifts[i], N_shifts[i]>>],
                   form |-> "loop"]>>
    /\ pc' = "combine"
    /\ UNCHANGED <<argv, H_shifts, N_shifts, binned_H_shifts, binned_N_shifts,
                   input_matrices, printed, test_line, err, combined_from, passed, runs,
                   binvars>>

\* predictor.combine_inputs()
CombineInputs ==
    /\ pc = "combine"
    /\ predictor' = combine_inputs(predictor)
    /\ combined_from' = given
    /\ pc' = "predict"
    /\ UNCHANGED <<argv, H_shifts, N_shifts, binned_H_shifts, binned_N_shifts,
                   input_matrices, printed, test_line, err, given, passed, runs,
                   binvars>>

\* prediction = predictor.predict_structure_composition()
Predict ==
    /\ pc = "predict"
    /\ predictor' = predict_structure_composition(predictor)
    /\ passed' = <<[given |-> given, combined_from |-> combined_from]>>
    /\ pc' = "print"
    /\ UNCHANGED <<argv, H_shifts, N_shifts, binned_H_shifts, binned_N_shifts,
                   input_matrices, printed, test_line, err, given, combined_from, runs,
                   binvars>>

\* print(f" Secondary Structure Prediction ...")
PrintResult ==
    /\ pc = "print"
    /\ printed' = TRUE
    /\ pc' = "shap"
    /\ UNCHANGED <<argv, H_shifts, N_shifts, binned_H_shifts, binned_N_shifts,
                   input_matrices, test_line, predictor, err, apivars, binvars>>

InArgv(arg) == \E i \in 1..Len(argv) : argv[i] = arg

\* if "shap" in sys.argv: calc_shap_values() and build_shap_spectra(); the
\* explainer and the plot are outside the repository.
Explain ==
    /\ pc = "shap"
    /\ InArgv(ArgShap)
    /\ predictor' = SetAttr(predictor, "shap_values",
                            [explain |-> predictor["combined_inputs"]])
    /\ pc' = "check"
    /\ UNCHANGED <<argv, H_shifts, N_shifts, binned_H_shifts, binned_N_shifts,
                   input_matrices, printed, test_line, err, apivars, binvars>>

NoExplain ==
    /\ pc = "shap"
    /\ ~InArgv(ArgShap)
    /\ pc' = "check"
    /\ UNCHANGED <<argv, H_shifts, N_shifts, binned_H_shifts, binned_N_shifts,
                   input_matrices, printed, test_line, predictor, err, apivars, binvars>>

\* if sys.argv[1] == "test": without a command-line argument sys.argv[1] is an
\* IndexError.  The comparison reads digits of the regressor's result, which
\* the model leaves open.
TestCheck ==
    /\ pc = "check"
    /\ IF Len(argv) < 2
       THEN /\ err' = "IndexError"
            /\ pc' = "failed"
            /\ test_line' = test_line
       ELSE /\ err' = err
            /\ pc' = "done"
            /\ IF argv[2] = ArgTest
               THEN test_line' \in {"passed", "failed"}
               ELSE test_line' = test_line
    /\ UNCHANGED <<argv, H_shifts, N_shifts, binned_H_shifts, binned_N_shifts,
                   input_matrices, printed, predictor, apivars, binvars>>

Next ==
    \/ ReadTestCsv
    \/ ReadUserCsv
    \/ ReadInstrument
    \/ Construct
    \/ BinGrid
    \/ GetInput
    \/ CombineInputs
    \/ Predict
    \/ PrintResult
    \/ Explain
    \/ NoExplain
    \/ TestCheck

Spec == Init /\ [][Next]_vars

\* ------------------------------------------- calls on one SecStrucPredictor
\* The peak lists a caller runs the pipeline on.
ApiPeakLists ==
    { << <<HMid, NMid>>, <<HMin, NMin>> >>, << <<HMin, NMax>> >>, << <<HLow, NMin>> >> }
\* The peak lists whole pipeline runs are made on.
RunPeakLists == { << <<HMid, NMid>>, <<HMin, NMin>> >>, << <<HMin, NMax>> >> }

\* What a caller may hand to get_input, named by the peak list it was built from
\* and its form: the matrices of the binning loop ("loop"), the same with the
\* first two exchanged ("exchanged"), or the 10x8 matrix three times ("repeated").
MatrixInputs ==
    { [peaks |-> p, form |-> "loop"] : p \in ApiPeakLists }
       \cup { [peaks |-> p, form |-> f] :
                 p \in { << <<HMid, NMid>>, <<HMin, NMin>> >> },
                 f \in {"exchanged", "repeated"} }

BuildMatrices(input) ==
    LET ms == LoopMatrices(Column(input.peaks, 1), Column(input.peaks, 2))
    IN  CASE input.form = "loop" -> ms
          [] input.form = "exchanged" -> <<ms[2], ms[1], ms[3]>>
          [] input.form = "repeated" -> <<ms[3], ms[3], ms[3]>>

\* The matrices of every input, built once.
MatrixTable == [input \in MatrixInputs |-> BuildMatrices(input)]
MatricesOf(input) == MatrixTable[input]

\* A vector or a regressor result written down as its length and its non-zero
\* entries.
Entries(vector) ==
    [len |-> Len(vector),
     nonzero |-> {<<j, vector[j]>> : j \in {i \in 1..Len(vector) : vector[i] # 0}}]

InitApi ==
    /\ argv = <<Script>>
    /\ pc = "api"
    /\ H_shifts = <<>>
    /\ N_shifts = <<>>
    /\ binned_H_shifts = <<>>
    /\ binned_N_shifts = <<>>
    /\ input_matrices = <<>>
    /\ predictor = NewPredictor
    /\ err = "none"
    /\ printed = FALSE
    /\ test_line = "none"
    /\ given = <<>>
    /\ combined_from = <<>>
    /\ passed = <<>>
    /\ runs = {}
    /\ b_args = <<>>
    /\ b_out = <<>>

\* predictor = SecStrucPredictor(): a new object replaces the old one.
CallConstructor ==
    /\ predictor' = NewPredictor
    /\ given' = <<>>
    /\ combined_from' = <<>>
    /\ passed' = <<>>
    /\ err' = "none"
    /\ UNCHANGED <<mainvars, runs, binvars>>

CallGetInput ==
    /\ \E input \in MatrixInputs :
          /\ predictor' = get_input(predictor, MatricesOf(input))
          /\ given' = <<input>>
    /\ err' = "none"
    /\ UNCHANGED <<mainvars, combined_from, passed, runs, binvars>>

\* self.matrix_20x10 on an object that was given no input is an AttributeError.
CallCombineInputs ==
    /\ IF HasAttrs(predictor, MatrixAttrs)
       THEN /\ predictor' = combine_inputs(predictor)
            /\ combined_from' = given
            /\ err' = "none"
       ELSE /\ err' = "AttributeError"
            /\ UNCHANGED <<predictor, combined_from>>
    /\ UNCHANGED <<mainvars, given, passed, runs, binvars>>

\* self.combined_inputs before any combine_inputs is an AttributeError.
CallPredict ==
    /\ IF HasAttrs(predictor, {"combined_inputs"})
       THEN /\ predictor' = predict_structure_composition(predictor)
            /\ passed' = <<[given |-> given, combined_from |-> combined_from]>>
            /\ err' = "none"
       ELSE /\ err' = "AttributeError"
            /\ UNCHANGED <<predictor, passed>>
    /\ UNCHANGED <<mainvars, given, combined_from, runs, binvars>>

\* The pipeline of __main__ on the object as it is: the binning loop, get_input,
\* combine_inputs and predict_structure_composition.  leftover tells whether the
\* object held a vector other than the one this run builds.
RunPipeline ==
    /\ \E peaks \in RunPeakLists :
          LET input == [peaks |-> peaks, form |-> "loop"]
              after == predict_structure_composition(
                          combine_inputs(get_input(predictor, MatricesOf(input))))
          IN  /\ predictor' = after
              /\ given' = <<input>>
              /\ combined_from' = <<input>>
              /\ passed' = <<[given |-> <<input>>, combined_from |-> <<input>>]>>
              /\ runs' = runs \cup
                    {[peaks |-> peaks,
                      vector |-> Entries(after["combined_inputs"]),
                      result |-> Entries(after["predictions"].predict),
                      leftover |-> /\ HasAttrs(predictor, {"combined_inputs"})
                                   /\ predictor["combined_inputs"] # after["combined_inputs"]]}
    /\ err' = "none"
    /\ UNCHANGED <<mainvars, binvars>>

\* The three methods called in any order on one object.
NextApi ==
    \/ CallConstructor
    \/ CallGetInput
    \/ CallCombineInputs
    \/ CallPredict

SpecApi == InitApi /\ [][NextApi]_vars

\* Whole pipeline runs on one object, with get_input calls of other callers and
\* new objects in between.
NextRuns ==
    \/ CallConstructor
    \/ CallGetInput
    \/ RunPipeline

SpecRuns == InitApi /\ [][NextRuns]_vars

\* ----------------------------------------------------- binning on its own
\* The arguments the binning loop calls binning with, on either axis.
BinningGrids ==
    { [binsize |-> H_binsize(GridSpecs[g][1]), shift_min |-> H_shift_min,
       num_1D_grid |-> GridSpecs[g][1], values |-> {HLow, HMin, HMid, HMax}]
         : g \in 1..Len(GridSpecs) }
    \cup
    { [binsize |-> N_binsize(GridSpecs[g][2]), shift_min |-> N_shift_min,
       num_1D_grid |-> GridSpecs[g][2], values |-> {NLow, NMin, NMid, NMax}]
         : g \in 1..Len(GridSpecs) }

InitBin ==
    /\ argv = <<Script>>
    /\ pc = "bin"
    /\ H_shifts = <<>>
    /\ N_shifts = <<>>
    /\ binned_H_shifts = <<>>
    /\ binned_N_shifts = <<>>
    /\ input_matrices = <<>>
    /\ predictor = <<>>
    /\ err = "none"
    /\ printed = FALSE
    /\ test_line = "none"
    /\ given = <<>>
    /\ combined_from = <<>>
    /\ passed = <<>>
    /\ runs = {}
    /\ \E grid \in BinningGrids : \E shifts \in SeqsUpTo(grid.values, MaxShifts) :
          b_args = [shifts |-> shifts, binsize |-> grid.binsize,
                    shift_min |-> grid.shift_min, num_1D_grid |-> grid.num_1D_grid]
    /\ b_out = <<>>

CallBinning ==
    /\ pc = "bin"
    /\ b_out = <<>>
    /\ b_out' = <<binning(b_args.shifts, b_args.binsize, b_args.shift_min,
                          b_args.num_1D_grid)>>
    /\ UNCHANGED <<mainvars, predictor, err, apivars, b_args>>

NextBin == CallBinning

SpecBin == InitBin /\ [][NextBin]_vars

\* ------------------------------------------------- properties of __main__
RECURSIVE SumSeq(_)
SumSeq(q) == IF q = <<>> THEN 0 ELSE Head(q) + SumSeq(Tail(q))

RECURSIVE SumMatrix(_)
SumMatrix(m) == IF m = <<>> THEN 0 ELSE SumSeq(Head(m)) + SumMatrix(Tail(m))

\* Peak i of the list read is the pair (H_shifts[i], N_shifts[i]).
PeakIds == 1..Len(H_shifts)

\* The bin indexes of peak i under a grid, and whether they lie on the grid.
IndexH(i, grid) == bin_index_of(H_shifts[i], H_binsize(grid[1]), H_shift_min)
IndexN(i, grid) == bin_index_of(N_shifts[i], N_binsize(grid[2]), N_shift_min)
OnGridH(i, grid) == IndexH(i, grid) >= 0 /\ IndexH(i, grid) <= grid[1] - 1
OnGridN(i, grid) == IndexN(i, grid) >= 0 /\ IndexN(i, grid) <= grid[2] - 1

\* The peaks whose value binning keeps on one axis, in input order: entry k is
\* the peak that the k-th index of the binned list comes from.
SourceH(grid) == SelectSeq([i \in PeakIds |-> i], LAMBDA i : OnGridH(i, grid))
SourceN(grid) == SelectSeq([i \in PeakIds |-> i], LAMBDA i : OnGridN(i, grid))

\* The grid of the latest pass of the binning loop.
PassDone == Len(input_matrices) >= 1
LastGrid == GridSpecs[Len(input_matrices)]
LastMatrix == input_matrices[Len(input_matrices)]

\* C1: under each GridSpec, every increment of the count matrix pairs the H
\* index and the N index of one and the same peak, and a peak off the grid on
\* either axis takes part in no increment.
CX_C1_PairingKeepsPeakIdentity ==
    PassDone =>
       LET srcH == SourceH(LastGrid)
           srcN == SourceN(LastGrid)
       IN  \A k \in 1..Min(Len(binned_H_shifts), Len(binned_N_shifts)) :
              /\ srcH[k] = srcN[k]
              /\ OnGridH(srcN[k], LastGrid)
              /\ OnGridN(srcH[k], LastGrid)

\* C2: the cells of every count matrix add up to the number of peaks that are on
\* the grid on both axes at once.
CX_C2_SumIsJointCount ==
    \A g \in 1..Len(input_matrices) :
       SumMatrix(input_matrices[g]) =
          Cardinality({i \in PeakIds : OnGridH(i, GridSpecs[g]) /\ OnGridN(i, GridSpecs[g])})

\* C3: the cells of a count matrix add up to at most the number of peaks read,
\* and to exactly that number if and only if binning dropped no value on the H
\* axis and none on the N axis.
Thm_C3_SumAtMostPeaks ==
    PassDone =>
       /\ SumMatrix(LastMatrix) <= Len(H_shifts)
       /\ SumMatrix(LastMatrix) = Len(H_shifts)
             <=> /\ Len(binned_H_shifts) = Len(H_shifts)
                 /\ Len(binned_N_shifts) = Len(N_shifts)

\* Two peaks read, none dropped on either axis, both counted.
Wit_C3_NoneDropped ==
    /\ PassDone
    /\ Len(H_shifts) = 2
    /\ Len(binned_H_shifts) = 2
    /\ Len(binned_N_shifts) = 2
    /\ SumMatrix(LastMatrix) = 2

\* Positions off+1 .. off+rows*cols of vector hold grid g row by row: the entry
\* of row n, column h (both counted from 0) is the number of (H index, N index)
\* pairs of the zip loop of grid g with N index n and H index h.
Block(vector, off, rows, cols, g) ==
    LET bH == BinH(H_shifts, GridSpecs[g])
        bN == BinN(N_shifts, GridSpecs[g])
        pairs == 1..Min(Len(bH), Len(bN))
    IN  \A n \in 0..(rows - 1) : \A h \in 0..(cols - 1) :
           vector[off + n * cols + h + 1] =
              Cardinality({k \in pairs : bN[k] = n /\ bH[k] = h})

NothingRetained ==
    \A g \in 1..Len(GridSpecs) :
       BinH(H_shifts, GridSpecs[g]) = <<>> \/ BinN(N_shifts, GridSpecs[g]) = <<>>

\* C5: the vector combine_inputs builds has length 540; positions [0,200) hold
\* the 20x10 matrix, [200,460) the 26x10 matrix and [460,540) the 10x8 matrix,
\* each with N rows outer and H columns inner; with no peak retained it is all
\* zero, and no error was raised.
Thm_C5_VectorLayout ==
    (pc # "api" /\ HasAttrs(predictor, {"combined_inputs"})) =>
       LET vector == predictor["combined_inputs"]
       IN  /\ Len(vector) = 540
           /\ Block(vector, 0, 20, 10, 1)
           /\ Block(vector, 200, 26, 10, 2)
           /\ Block(vector, 460, 10, 8, 3)
           /\ NothingRetained => \A j \in 1..540 : vector[j] = 0
           /\ pc \in {"predict", "print", "shap", "check"} => err = "none"

\* A vector with a count in each of its three blocks.
Wit_C5_CountsInEveryBlock ==
    /\ pc = "predict"
    /\ HasAttrs(predictor, {"combined_inputs"})
    /\ \E j \in 1..200 : predictor["combined_inputs"][j] >= 1
    /\ \E j \in 201..460 : predictor["combined_inputs"][j] >= 1
    /\ \E j \in 461..540 : predictor["combined_inputs"][j] >= 1

\* C6: a run whose peak list is empty ends with the empty-input error before
\* any binning, in every input mode.
CX_C6_EmptyInputFails ==
    (pc \notin {"start", "api", "bin"} /\ H_shifts = <<>> /\ N_shifts = <<>>) =>
       (pc = "failed" /\ err = "ValueError" /\ input_matrices = <<>> /\ passed = <<>>)

\* C10: once the composition is printed no error is raised, and the test
\* comparison is made only when the first argument is "test".
CX_C10_EndsNormallyAfterPrint ==
    /\ printed => (pc # "failed" /\ err = "none")
    /\ test_line # "none" => (Len(argv) > 1 /\ argv[2] = ArgTest)

\* ---------------------------------------------------- properties of binning
\* The claimed rule in exact arithmetic, the bin size being num/den: v is kept
\* exactly when shift_min <= v < shift_min + num_1D_grid * binsize, with the
\* index floor((v - shift_min) / binsize).
ClaimedKept(v, a) ==
    /\ a.shift_min * Res <= v
    /\ v * a.binsize.den <
          (a.shift_min * a.binsize.den + a.num_1D_grid * a.binsize.num) * Res

ClaimedIndex(v, a) ==
    ((v - a.shift_min * Res) * a.binsize.den) \div (a.binsize.num * Res)

RECURSIVE ClaimedBinning(_, _)
ClaimedBinning(shifts, a) ==
    IF shifts = <<>> THEN <<>>
    ELSE IF ClaimedKept(Head(shifts), a)
         THEN <<ClaimedIndex(Head(shifts), a)>> \o ClaimedBinning(Tail(shifts), a)
         ELSE ClaimedBinning(Tail(shifts), a)

\* C4: binning keeps a value exactly when it lies in [shift_min, shift_min +
\* num_1D_grid*binsize) and emits floor((v - shift_min)/binsize) for it; every
\* index is on the grid, a value at shift_min gets index 0 and a value at the
\* upper range bound is dropped.
CX_C4_BinningIsHalfOpenFloor ==
    b_out # <<>> =>
       /\ b_out[1] = ClaimedBinning(b_args.shifts, b_args)
       /\ \A k \in 1..Len(b_out[1]) :
             b_out[1][k] >= 0 /\ b_out[1][k] <= b_args.num_1D_grid - 1

\* --------------------------------------- properties of SecStrucPredictor
\* The offset of matrix g in the flattening of the matrices ms.
RECURSIVE Offset(_, _)
Offset(ms, g) ==
    IF g = 1 THEN 0
    ELSE Offset(ms, g - 1) + Len(ms[g - 1]) * Len(ms[g - 1][1])

\* vector is the matrices ms, each row by row, one after the other.
IsFlattening(vector, ms) ==
    /\ Len(vector) = Offset(ms, Len(ms) + 1)
    /\ \A g \in 1..Len(ms) :
          LET off == Offset(ms, g)
              cols == Len(ms[g][1])
          IN  \A n \in 1..Len(ms[g]) : \A h \in 1..cols :
                 vector[off + (n - 1) * cols + h] = ms[g][n][h]

\* The vector the latest regressor call was handed.
PassedVector == predictor["predictions"].predict

HasShape(m, rows, cols) ==
    /\ Len(m) = rows
    /\ \A n \in 1..rows : Len(m[n]) = cols

ShapesOk(ms) ==
    /\ HasShape(ms[1], 20, 10)
    /\ HasShape(ms[2], 26, 10)
    /\ HasShape(ms[3], 10, 8)

\* C7: the regressor is never called with a vector built from matrices of
\* another shape than (20,10), (26,10), (10,8), nor with a vector whose length
\* is not 540: such a pipeline stops with a configuration error first.
CX_C7_RegressorOnlyGetsConfiguredShapes ==
    passed # <<>> =>
       /\ Len(PassedVector) = 540
       /\ ShapesOk(MatricesOf(passed[1].combined_from[1]))

\* C8: two pipeline runs on the same peak list give the same vector and the same
\* result, whatever the object held before each of them.
Thm_C8_RunsAreRepeatable ==
    \A r1 \in runs : \A r2 \in runs :
       r1.peaks = r2.peaks => (r1.vector = r2.vector /\ r1.result = r2.result)

\* The same peak list was run on an object without and on one with a vector
\* left over from a different input.
Wit_C8_RunAfterOtherInput ==
    \E r1 \in runs : \E r2 \in runs :
       /\ r1.peaks = r2.peaks
       /\ ~r1.leftover
       /\ r2.leftover
       /\ r1.vector.nonzero # {}

\* C9: the vector predict_structure_composition hands to the regressor is the
\* flattening of the matrices of the most recent get_input call.
CX_C9_PredictUsesLatestInput ==
    passed # <<>> => IsFlattening(PassedVector, MatricesOf(passed[1].given[1]))

\* C9 as amended: the vector handed to the regressor is the flattening of the
\* matrices the object held at its most recent combine_inputs call, those of the
\* last get_input before it; and no prediction exists unless a vector does.
Thm_C9_PredictUsesLatestCombine ==
    /\ passed # <<>> =>
          /\ passed[1].combined_from # <<>>
          /\ IsFlattening(PassedVector, MatricesOf(passed[1].combined_from[1]))
    /\ HasAttrs(predictor, {"predictions"}) =>
          (passed # <<>> /\ HasAttrs(predictor, {"combined_inputs"}))

\* A prediction made after a get_input that no combine_inputs followed.
Wit_C9_PredictAfterNewerInput ==
    /\ passed # <<>>
    /\ passed[1].given # passed[1].combined_from
    /\ HasAttrs(predictor, {"predictions"})

====
